---- MODULE Spec2Model ----
(***************************************************************************)
(* A model of packages/rpc/src/services/network.ts: the Network service of *)
(* the exchange JSON-RPC server.  The state is the Network singleton       *)
(* (options, peerDiscovery), the shared configManager (preset, height),    *)
(* the pending setTimeout of checkForAip11Enabled, and one sendRequest     *)
(* frame per request in progress: "w" is the height query issued by        *)
(* checkForAip11Enabled, "c" is a sendGET/sendPOST made by an RPC handler. *)
(* Every await of the source is a point where the frames interleave.       *)
(* process tells whether the node process is still up: nothing handles a   *)
(* rejection of checkForAip11Enabled, which init and the timer callback    *)
(* call without awaiting it.                                               *)
(***************************************************************************)
EXTENDS Integers, Sequences, FiniteSets, TLC

VARIABLES options, peerDiscovery, initState, preset, height,
          watcher, timer, calls, env, process

vars == <<options, peerDiscovery, initState, preset, height,
          watcher, timer, calls, env, process>>

(***************************************************************************)
(* Bounds of the model.                                                    *)
(***************************************************************************)
\* Heights a peer may report are 1..MaxHeight.
MaxHeight == 3
\* The height from which the preset's milestone has aip11 set.
Aip11Height == 3
\* The count of "unresponsive" warnings of one call saturates here.
MaxWarn == 1

(***************************************************************************)
(* Values.                                                                 *)
(***************************************************************************)
Procs == {"w", "c"}

SeedHost == "seed.example"
SeedPort == "4003"

P1 == [ip |-> "10.0.0.1", port |-> "4003"]
P2 == [ip |-> "10.0.0.2", port |-> "4003"]
NoPeer == [ip |-> "", port |-> ""]
SeedPeer == [ip |-> SeedHost, port |-> SeedPort]
Peers == {P1, P2}

\* The arrays findPeersWithPlugin may resolve to.
Lists == {<<>>, <<P1>>, <<P2>>, <<P1, P2>>}

Heights == 1 .. MaxHeight

\* `this.options` before init (undefined) and the two shapes init may be given:
\* peer "" (falsy: discovery by network name) or an explicit seed host.
NoOptions == [set |-> FALSE, peer |-> "", peerPort |-> ""]
InitOptions == {[set |-> TRUE, peer |-> "", peerPort |-> SeedPort],
                [set |-> TRUE, peer |-> SeedHost, peerPort |-> SeedPort]}

\* Request bodies: absent (sendGET passes only a query), an object, or a
\* string; q counts how many times the text has been JSON-quoted.
NoBody == [kind |-> "none", q |-> 0]
ObjBody == [kind |-> "obj", q |-> 0]
StrBody == [kind |-> "str", q |-> 0]

\* The value `undefined` where a height is expected: the configured height
\* before the first setHeight, and data.block.height of a reply that has no
\* such field.
NoHeight == 0

\* The value a request resolves to: undefined, or what JSON.parse gave.  Of
\* a parsed body the model keeps how far the path data.block.height exists
\* in it and the height at its end:
\*   "null"   null                      "data"   {"data": {}}
\*   "empty"  {}                        "block"  {"data": {"block": {}}}
\*   "full"   {"data": {"block": {"height": h}}}
\*   "other"  the reply of another endpoint, which this file never reads
NO_RESULT == [defined |-> FALSE, doc |-> "none", height |-> NoHeight]
Parsed(h) == [defined |-> TRUE, doc |-> "full", height |-> h]
ParsedPartial(d) == [defined |-> TRUE, doc |-> d, height |-> NoHeight]
PartialDocs == {"null", "empty", "data", "block"}

(***************************************************************************)
(* The environment: what the collaborators may answer.  discovery is the   *)
(* set of results of a findPeersWithPlugin call ("reject" or an array),    *)
(* probe the set of <<peer, answer>> pairs isReachable may give, http the  *)
(* set of <<peer, outcome>> pairs of a got call: "error" (connection       *)
(* error, timeout, non-2xx status), "garbage" (a body that is not JSON) or *)
(* "json" (a body that parses).                                            *)
(***************************************************************************)
HttpOutcomes == {"error", "garbage", "json"}

AnyEnv == [inits     |-> InitOptions,
           discovery |-> {[reject |-> TRUE, list |-> <<>>]} \cup
                         {[reject |-> FALSE, list |-> l] : l \in Lists},
           probe     |-> Peers \X BOOLEAN,
           http      |-> (Peers \cup {SeedPeer}) \X HttpOutcomes]

\* No explicit seed; discovery advertises P1 and P2, P1 does not answer the
\* probe and P2 does.
TwoPeersEnv == [inits     |-> {o \in InitOptions : o.peer = ""},
                discovery |-> {[reject |-> FALSE, list |-> <<P1, P2>>]},
                probe     |-> {<<P1, FALSE>>, <<P2, TRUE>>},
                http      |-> Peers \X HttpOutcomes]

\* No explicit seed; discovery advertises P1 alone, which never answers the
\* probe.
OneDeadEnv == [inits     |-> {o \in InitOptions : o.peer = ""},
               discovery |-> {[reject |-> FALSE, list |-> <<P1>>]},
               probe     |-> {<<P1, FALSE>>},
               http      |-> Peers \X HttpOutcomes]

\* No explicit seed; no peer advertises the core-api plugin.
EmptyEnv == [inits     |-> {o \in InitOptions : o.peer = ""},
             discovery |-> {[reject |-> FALSE, list |-> <<>>]},
             probe     |-> Peers \X BOOLEAN,
             http      |-> Peers \X HttpOutcomes]

\* No explicit seed; P1 and P2 are advertised and both answer the probe;
\* P1 fails every API request and P2 answers every one.
SwitchEnv == [inits     |-> {o \in InitOptions : o.peer = ""},
              discovery |-> {[reject |-> FALSE, list |-> <<P1, P2>>]},
              probe     |-> {<<P1, TRUE>>, <<P2, TRUE>>},
              http      |-> {<<P1, "error">>, <<P2, "json">>}]

\* The seed host answers, fails or sends garbage; where no seed is given,
\* discovery fails or advertises P1 alone, which answers the probe.
SeedEnv == [inits     |-> InitOptions,
            discovery |-> {[reject |-> TRUE, list |-> <<>>],
                           [reject |-> FALSE, list |-> <<P1>>]},
            probe     |-> {<<P1, TRUE>>},
            http      |-> {SeedPeer, P1} \X HttpOutcomes]

TypeOK ==
    /\ options \in {NoOptions} \cup InitOptions
    /\ peerDiscovery \in {"undefined", "created"}
    /\ initState \in {"new", "awaiting", "ready", "failed"}
    /\ preset \in BOOLEAN
    /\ height \in {NoHeight} \cup Heights
    /\ watcher \in {"off", "polling", "scheduled", "stopped", "crashed"}
    /\ timer \in {0, 8000}
    /\ DOMAIN calls = Procs
    /\ process \in {"running", "exited"}

(***************************************************************************)
(* A sendRequest frame.  pc is the await the frame is suspended at:        *)
(*   "discover"  await this.getPeers()           (line 96)                 *)
(*   "probe"     await isReachable(...)          (line 97)                 *)
(*   "selected"  await this.getPeer(), resolved  (line 56)                 *)
(*   "http"      await got[method](...)          (line 65)                 *)
(*   "catch"     a rejection on its way to the catch clause (line 77)      *)
(*   "done"      the promise of sendGET/sendPOST is settled                *)
(*   "height"    await this.getHeight(), resolved      (line 45)           *)
(*   "rejected"  await this.getHeight(), rejected      (line 45)           *)
(* api is the public method the frame was started by: sendGET, sendPOST or *)
(* getHeight (which calls sendGET and reads the height of the reply).      *)
(* tries, options.body, peer and reachable are the source's variables;     *)
(* cands is the array the last getPeers resolved to; attempts, fails,      *)
(* nhttp and the three log counters record what the call has done.         *)
(***************************************************************************)
IdleFrame ==
    [pc |-> "idle", api |-> "sendGET", method |-> "get", body |-> NoBody,
     tries |-> 0,
     cands |-> <<>>, peer |-> NoPeer, reachable |-> FALSE, err |-> "",
     result |-> NO_RESULT, outcome |-> "none",
     attempts |-> 0, fails |-> 0, nhttp |-> 0,
     errLogs |-> 0, finalLogs |-> 0, warns |-> 0]

\* Mutant of InTry: only the got call is guarded.
InTryGotOnly(site) == site = "got"

\* try { ... } of sendRequest spans lines 55-76: the awaited getPeer, the got
\* call and JSON.parse are all inside it.
InTry(site) == site \in {"peer", "got", "parse"}

\* An exception with message e raised at `site` of frame f: into the catch
\* clause when the site is inside the try block, else out of sendRequest to
\* its caller.  The messages stand for the TypeErrors of reading a property
\* of undefined (this.options, this.peerDiscovery, the sampled peer) and for
\* the errors of the discovery client, of got and of JSON.parse.
Throw(f, e, site) ==
    IF InTry(site)
    THEN [f EXCEPT !.pc = "catch", !.err = e, !.fails = @ + 1,
                   !.cands = <<>>, !.peer = NoPeer, !.reachable = FALSE]
    ELSE [f EXCEPT !.pc = "done", !.err = e, !.fails = @ + 1,
                   !.cands = <<>>, !.peer = NoPeer, !.reachable = FALSE,
                   !.outcome = "raised", !.result = NO_RESULT]

\* Mutant of HasSeed: the test negated.
HasSeedInverted(o) == o.peer = ""

\* if (this.options.peer): a non-empty string is truthy.
HasSeed(o) == o.peer # ""

\* { ip: this.options.peer, port: this.options.peerPort }
SeedOf(o) == [ip |-> o.peer, port |-> o.peerPort]

\* getPeer from its entry to its first await (lines 92-96 and 109), for the
\* frame f that awaits it at line 56; o is this.options and pd is
\* this.peerDiscovery at that moment.
GetPeerEntry(f, o, pd) ==
    IF ~o.set
    THEN Throw(f, "options undefined", "peer")
    ELSE IF HasSeed(o)
    THEN [f EXCEPT !.pc = "selected", !.peer = SeedOf(o)]
    ELSE IF pd = "undefined"
    THEN Throw(f, "peerDiscovery undefined", "peer")
    ELSE [f EXCEPT !.pc = "discover", !.cands = <<>>, !.peer = NoPeer,
                   !.reachable = FALSE]

\* sendRequest from its entry to its first await (lines 55-56).
Enter(f, o, pd) == GetPeerEntry([f EXCEPT !.attempts = @ + 1], o, pd)

\* sendGET / sendPOST (lines 32-38): a first sendRequest with tries = 0.
NewCall(method, body, o, pd) ==
    Enter([IdleFrame EXCEPT !.method = method, !.body = body], o, pd)

\* Mutant of Sample: a default peer for an empty array.
SampleDefault(l, i) ==
    IF i \in 1 .. Len(l) THEN l[i] ELSE [ip |-> "0.0.0.0", port |-> "0"]

\* Mutant of SampleIdx: always the first element.
SampleFirst(l) == IF l = <<>> THEN {0} ELSE {1}

\* lodash sample: the element at a random index, undefined for an empty array.
SampleIdx(l) == IF l = <<>> THEN {0} ELSE 1 .. Len(l)
Sample(l, i) == IF i \in 1 .. Len(l) THEN l[i] ELSE NoPeer

\* Mutant of Exhausted: the retries never end.
ExhaustedNever(t) == FALSE

\* Mutant of Exhausted: one retry too many.
ExhaustedLate(t) == t > 3

\* tries > 2 (line 82)
Exhausted(t) == t > 2

\* JSON.stringify of a body: an object becomes its text, a string is quoted.
Stringify(b) ==
    IF b.kind = "str" THEN [kind |-> "str", q |-> b.q + 1]
    ELSE [kind |-> "str", q |-> 0]

\* Mutant of SerializeBody: a body that is present is serialized whatever its
\* type.
SerializeAlways(b) == IF b.kind = "none" THEN b ELSE Stringify(b)

\* options.body && typeof options.body !== "string" (lines 61-63)
SerializeBody(b) == IF b.kind = "obj" THEN Stringify(b) ELSE b

\* Managers.configManager.getMilestone(height): the preset's milestone has
\* aip11 from Aip11Height on; blocktime is 8 seconds.  An undefined height
\* gets the first milestone.
GetMilestone(h) == [aip11 |-> h # NoHeight /\ h >= Aip11Height, blocktime |-> 8]

(***************************************************************************)
(* Initial state: the module has been loaded, `network` constructed, init  *)
(* not yet called.                                                         *)
(***************************************************************************)
InitIn(e) ==
    /\ options = NoOptions
    /\ peerDiscovery = "undefined"
    /\ initState = "new"
    /\ preset = FALSE
    /\ height = NoHeight
    /\ watcher = "off"
    /\ timer = 0
    /\ calls = [p \in Procs |-> IdleFrame]
    /\ env = e
    /\ process = "running"

Init == \E e \in {AnyEnv, OneDeadEnv, EmptyEnv, SwitchEnv} : InitIn(e)

(***************************************************************************)
(* init (lines 13-30).                                                     *)
(***************************************************************************)
\* Mutant of InitStart: the discovery client is stored before its setup has
\* been awaited.
InitStartEager ==
    /\ process = "running"
    /\ initState = "new"
    /\ \E o \in env.inits : options' = o
    /\ initState' = "awaiting"
    /\ peerDiscovery' = "created"
    /\ UNCHANGED <<preset, height, watcher, timer, calls, env, process>>

\* Lines 19-25 up to the await of PeerDiscovery.new.
InitStart ==
    /\ process = "running"
    /\ initState = "new"
    /\ \E o \in env.inits : options' = o
    /\ initState' = "awaiting"
    /\ UNCHANGED <<peerDiscovery, preset, height, watcher, timer, calls, env,
                   process>>

\* checkForAip11Enabled from its entry to its first await (line 45): getHeight
\* calls sendGET({ path: "blockchain" }).
StartPoll(pd) ==
    /\ watcher' = "polling"
    /\ calls' = [calls EXCEPT !["w"] = [NewCall("get", NoBody, options, pd)
                                          EXCEPT !.api = "getHeight"]]

\* PeerDiscovery.new resolved: lines 25-29.
InitDiscovered ==
    /\ process = "running"
    /\ initState = "awaiting"
    /\ initState' = "ready"
    /\ peerDiscovery' = "created"
    /\ preset' = TRUE
    /\ StartPoll("created")
    /\ UNCHANGED <<options, height, timer, env, process>>

\* Mutant of InitFailed: the rejection is swallowed and init goes on with
\* lines 27-29.
InitFailedSwallowed ==
    /\ process = "running"
    /\ initState = "awaiting"
    /\ initState' = "failed"
    /\ preset' = TRUE
    /\ StartPoll(peerDiscovery)
    /\ UNCHANGED <<options, peerDiscovery, height, timer, env, process>>

\* PeerDiscovery.new rejected: init rejects at line 25.
InitFailed ==
    /\ process = "running"
    /\ initState = "awaiting"
    /\ initState' = "failed"
    /\ UNCHANGED <<options, peerDiscovery, preset, height, watcher, timer,
                   calls, env, process>>

(***************************************************************************)
(* sendGET / sendPOST / getHeight called by an RPC handler (lines 32-42).   *)
(***************************************************************************)
Call ==
    /\ process = "running"
    /\ \/ calls["c"].pc = "idle"
       \/ calls["c"].pc = "done" /\ calls["c"].api # "getHeight"
    /\ \E amb \in {<<"sendGET", "get", NoBody>>, <<"sendPOST", "post", ObjBody>>,
                    <<"getHeight", "get", NoBody>>} :
         calls' = [calls EXCEPT !["c"] =
                     [NewCall(amb[2], amb[3], options, peerDiscovery)
                        EXCEPT !.api = amb[1]]]
    /\ UNCHANGED <<options, peerDiscovery, initState, preset, height,
                   watcher, timer, env, process>>

(***************************************************************************)
(* getPeer (lines 91-106).                                                 *)
(***************************************************************************)
\* Line 96 resumed with the result d of findPeersWithPlugin, i the index
\* sample draws; then line 97 up to the await of isReachable.
AfterDiscovery(f, d, i) ==
    IF d.reject
    THEN Throw(f, "discovery failed", "peer")
    ELSE IF Sample(d.list, i) = NoPeer
    THEN Throw(f, "peer undefined", "peer")
    ELSE [f EXCEPT !.pc = "probe", !.cands = d.list,
                   !.peer = Sample(d.list, i)]

DiscoverReturn(p) ==
    /\ process = "running"
    /\ calls[p].pc = "discover"
    /\ \E d \in env.discovery : \E i \in SampleIdx(d.list) :
         calls' = [calls EXCEPT ![p] = AfterDiscovery(calls[p], d, i)]
    /\ UNCHANGED <<options, peerDiscovery, initState, preset, height,
                   watcher, timer, env, process>>

\* Mutant of AfterProbe: the test of `reachable` negated.
AfterProbeInverted(f, r) ==
    IF r
    THEN GetPeerEntry([f EXCEPT !.reachable = r,
                                !.warns = IF @ < MaxWarn THEN @ + 1 ELSE @],
                      options, peerDiscovery)
    ELSE [f EXCEPT !.pc = "selected", !.reachable = r,
                   !.peer = [ip |-> f.peer.ip, port |-> f.peer.port]]

\* Mutant of AfterProbe: an unreachable peer raises instead of resampling.
AfterProbeThrows(f, r) ==
    IF ~r
    THEN Throw([f EXCEPT !.reachable = r], "unreachable", "peer")
    ELSE [f EXCEPT !.pc = "selected", !.reachable = r,
                   !.peer = [ip |-> f.peer.ip, port |-> f.peer.port]]

\* Mutant of AfterProbe: an unreachable peer starts a new sendRequest instead
\* of a new getPeer.
AfterProbeRestarts(f, r) ==
    IF ~r
    THEN Enter([f EXCEPT !.reachable = r,
                         !.warns = IF @ < MaxWarn THEN @ + 1 ELSE @],
               options, peerDiscovery)
    ELSE [f EXCEPT !.pc = "selected", !.reachable = r,
                   !.peer = [ip |-> f.peer.ip, port |-> f.peer.port]]

\* Lines 97-105 resumed with the answer r of isReachable.
AfterProbe(f, r) ==
    IF ~r
    THEN GetPeerEntry([f EXCEPT !.reachable = r,
                                !.warns = IF @ < MaxWarn THEN @ + 1 ELSE @],
                      options, peerDiscovery)
    ELSE [f EXCEPT !.pc = "selected", !.reachable = r,
                   !.peer = [ip |-> f.peer.ip, port |-> f.peer.port]]

ProbeReturn(p) ==
    /\ process = "running"
    /\ calls[p].pc = "probe"
    /\ \E r \in BOOLEAN :
         /\ <<calls[p].peer, r>> \in env.probe
         /\ calls' = [calls EXCEPT ![p] = AfterProbe(calls[p], r)]
    /\ UNCHANGED <<options, peerDiscovery, initState, preset, height,
                   watcher, timer, env, process>>

(***************************************************************************)
(* sendRequest (lines 54-89).                                              *)
(***************************************************************************)
\* Lines 56-65: getPeer resolved; the uri is built, the body serialized and
\* the got call issued.
SendHttp(p) ==
    /\ process = "running"
    /\ calls[p].pc = "selected"
    /\ calls' = [calls EXCEPT ![p] =
                   [@ EXCEPT !.pc = "http", !.body = SerializeBody(@),
                             !.nhttp = @ + 1]]
    /\ UNCHANGED <<options, peerDiscovery, initState, preset, height,
                   watcher, timer, env, process>>

\* Mutant of AfterHttp: the parsed body is not returned and the request is
\* made again.
AfterHttpNoReturn(f, o, r) ==
    IF o = "error" THEN Throw(f, "request failed", "got")
    ELSE IF o = "garbage" THEN Throw(f, "unexpected token", "parse")
    ELSE Enter(f, options, peerDiscovery)

\* Lines 65-76 resumed with the outcome o of got and, for a body that parses,
\* the value r it parses to.
AfterHttp(f, o, r) ==
    IF o = "error" THEN Throw(f, "request failed", "got")
    ELSE IF o = "garbage" THEN Throw(f, "unexpected token", "parse")
    ELSE [f EXCEPT !.pc = "done", !.outcome = "returned",
                   !.result = r,
                   !.cands = <<>>, !.peer = NoPeer, !.reachable = FALSE]

\* What a body may parse to: nothing unless it is JSON.  The blockchain endpoint, which
\* getHeight asks, reports a height or sends JSON in which the path to it
\* breaks off; of the other replies the model keeps nothing.
Replies(p, o) ==
    IF o # "json" THEN {NO_RESULT}
    ELSE IF calls[p].api = "getHeight"
    THEN {Parsed(h) : h \in Heights} \cup {ParsedPartial(d) : d \in PartialDocs}
    ELSE {ParsedPartial("other")}

HttpReturn(p) ==
    /\ process = "running"
    /\ calls[p].pc = "http"
    /\ \E o \in HttpOutcomes : \E r \in Replies(p, o) :
         /\ <<calls[p].peer, o>> \in env.http
         /\ calls' = [calls EXCEPT ![p] = AfterHttp(calls[p], o, r)]
    /\ UNCHANGED <<options, peerDiscovery, initState, preset, height,
                   watcher, timer, env, process>>

\* Mutant of AfterCatch: the retry reuses the frame's peer instead of running
\* getPeer again.
AfterCatchNoReselect(f) ==
    IF Exhausted(f.tries + 1)
    THEN [f EXCEPT !.pc = "done", !.tries = @ + 1, !.errLogs = @ + 1,
                   !.finalLogs = @ + 1, !.outcome = "returned",
                   !.result = NO_RESULT, !.err = ""]
    ELSE [f EXCEPT !.pc = "selected", !.tries = @ + 1, !.errLogs = @ + 1,
                   !.err = "", !.attempts = @ + 1]

\* The catch clause, lines 77-88.
AfterCatch(f) ==
    IF Exhausted(f.tries + 1)
    THEN [f EXCEPT !.pc = "done", !.tries = @ + 1, !.errLogs = @ + 1,
                   !.finalLogs = @ + 1, !.outcome = "returned",
                   !.result = NO_RESULT, !.err = ""]
    ELSE Enter([f EXCEPT !.tries = @ + 1, !.errLogs = @ + 1, !.err = ""],
               options, peerDiscovery)

Catch(p) ==
    /\ process = "running"
    /\ calls[p].pc = "catch"
    /\ calls' = [calls EXCEPT ![p] = AfterCatch(calls[p])]
    /\ UNCHANGED <<options, peerDiscovery, initState, preset, height,
                   watcher, timer, env, process>>

(***************************************************************************)
(* checkForAip11Enabled (lines 44-52) and getHeight (lines 40-42).         *)
(***************************************************************************)
\* .data.block.height of what sendGET resolved to (line 41) can be read
\* unless the value is undefined or null, or has no data, or data has no
\* block: reading a property of undefined or null is a TypeError.  Where
\* block has no height the read gives undefined.
HeightReadable(f) ==
    /\ f.outcome = "returned"
    /\ f.result.defined
    /\ f.result.doc \in {"block", "full"}

\* Mutant of GetHeightReturn: getHeight stores the height it read.
GetHeightReturnStores ==
    /\ process = "running"
    /\ calls["c"].pc = "done"
    /\ calls["c"].api = "getHeight"
    /\ calls' = [calls EXCEPT !["c"] = IdleFrame]
    /\ height' = IF HeightReadable(calls["c"])
                 THEN calls["c"].result.height ELSE height
    /\ UNCHANGED <<options, peerDiscovery, initState, preset, watcher, timer,
                   env, process>>

\* getHeight called by an RPC handler, resumed at line 41 when its sendGET
\* has settled: the caller gets the height, or the TypeError of line 41.
GetHeightReturn ==
    /\ process = "running"
    /\ calls["c"].pc = "done"
    /\ calls["c"].api = "getHeight"
    /\ calls' = [calls EXCEPT !["c"] = IdleFrame]
    /\ UNCHANGED <<options, peerDiscovery, initState, preset, height,
                   watcher, timer, env, process>>

\* getHeight called by checkForAip11Enabled, resumed at line 41 when its
\* sendGET has settled: its promise resolves to the height read or rejects
\* with the TypeError; checkForAip11Enabled is still suspended at line 45.
AfterGetHeight(f) ==
    IF HeightReadable(f)
    THEN [IdleFrame EXCEPT !.pc = "height", !.api = "getHeight",
                           !.result = f.result]
    ELSE [IdleFrame EXCEPT !.pc = "rejected", !.api = "getHeight"]

WatcherGetHeight ==
    /\ process = "running"
    /\ watcher = "polling"
    /\ calls["w"].pc = "done"
    /\ calls' = [calls EXCEPT !["w"] = AfterGetHeight(calls["w"])]
    /\ UNCHANGED <<options, peerDiscovery, initState, preset, height,
                   watcher, timer, env, process>>

\* Mutant of Reschedule: the timer is set whatever the milestone says.
RescheduleAlways(m) == TRUE

\* if (!milestone.aip11) (line 49)
Reschedule(m) == ~m.aip11

\* Mutant of Delay: the block time taken as milliseconds.
DelaySeconds(m) == m.blocktime

\* milestone.blocktime * 1000 (line 50)
Delay(m) == m.blocktime * 1000

\* What becomes of the process when the promise of checkForAip11Enabled
\* rejects (lines 29 and 50 drop it and no unhandledRejection handler is
\* installed): node 15 and later end the process with exit code 1, earlier
\* versions print a warning and go on.
UnhandledRejection == {"running", "exited"}

\* checkForAip11Enabled resumed at line 45 when getHeight has settled: lines
\* 46-51 with the height, or the rejection of its own promise.
WatcherResume ==
    /\ process = "running"
    /\ watcher = "polling"
    /\ calls["w"].pc \in {"height", "rejected"}
    /\ calls' = [calls EXCEPT !["w"] = IdleFrame]
    /\ IF calls["w"].pc = "rejected"
       THEN /\ watcher' = "crashed"
            /\ process' \in UnhandledRejection
            /\ UNCHANGED <<height, timer>>
       ELSE /\ height' = calls["w"].result.height
            /\ process' = process
            /\ IF Reschedule(GetMilestone(calls["w"].result.height))
               THEN /\ timer' = Delay(GetMilestone(calls["w"].result.height))
                    /\ watcher' = "scheduled"
               ELSE /\ timer' = 0
                    /\ watcher' = "stopped"
    /\ UNCHANGED <<options, peerDiscovery, initState, preset, env>>

\* Mutant of TimerFire: the timer repeats (setInterval for setTimeout).
TimerFireRepeats ==
    /\ process = "running"
    /\ timer # 0
    /\ StartPoll(peerDiscovery)
    /\ UNCHANGED <<options, peerDiscovery, initState, preset, height, timer,
                   env, process>>

\* The setTimeout callback of line 50.
TimerFire ==
    /\ process = "running"
    /\ timer # 0
    /\ timer' = 0
    /\ StartPoll(peerDiscovery)
    /\ UNCHANGED <<options, peerDiscovery, initState, preset, height, env,
                   process>>

Next ==
    \/ InitStart
    \/ InitDiscovered
    \/ InitFailed
    \/ Call
    \/ \E p \in Procs : DiscoverReturn(p)
    \/ \E p \in Procs : ProbeReturn(p)
    \/ \E p \in Procs : SendHttp(p)
    \/ \E p \in Procs : HttpReturn(p)
    \/ \E p \in Procs : Catch(p)
    \/ GetHeightReturn
    \/ WatcherGetHeight
    \/ WatcherResume
    \/ TimerFire

Spec == Init /\ [][Next]_vars

(***************************************************************************)
(* The two-peer network under fair scheduling: a pending discovery query   *)
(* and a pending probe are eventually answered (the event loop runs their  *)
(* callbacks), and a frame that samples again and again eventually draws   *)
(* P2 (the random sample does not pick P1 for ever).                       *)
(***************************************************************************)
SamplePick(p, x) == DiscoverReturn(p) /\ calls'[p].peer = x

FairTwoPeers ==
    \A p \in Procs :
        /\ WF_vars(DiscoverReturn(p))
        /\ WF_vars(ProbeReturn(p))
        /\ SF_vars(SamplePick(p, P2))

SpecTwoPeers == InitIn(TwoPeersEnv) /\ [][Next]_vars /\ FairTwoPeers

(***************************************************************************)
(* The seeded network under fair scheduling: the continuation of a         *)
(* resolved getPeer and a pending rejection run (the event loop runs the   *)
(* promise jobs), and a got call settles (it answers, fails or times out   *)
(* after 3000 ms).                                                         *)
(***************************************************************************)
FairSeed ==
    \A p \in Procs :
        /\ WF_vars(SendHttp(p))
        /\ WF_vars(HttpReturn(p))
        /\ WF_vars(Catch(p))

SpecSeed == InitIn(SeedEnv) /\ [][Next]_vars /\ FairSeed

(***************************************************************************)
(* Properties.                                                             *)
(***************************************************************************)
Range(l) == {l[i] : i \in 1 .. Len(l)}

NonSeed == options.set /\ options.peer = ""
SeedMode == options.set /\ options.peer # ""

\* C1: a call whose every attempt failed has made exactly 3 attempts and has
\* returned undefined, with one logged error per failed attempt and one
\* final "failed after 3 tries" message; and at any moment outside the catch
\* clause the logged errors are as many as the failed attempts.
C1_ThreeAttemptsThenNoResult ==
    \A p \in Procs :
        /\ calls[p].pc # "catch" => calls[p].errLogs = calls[p].fails
        /\ calls[p].pc # "done" => calls[p].finalLogs = 0
        /\ (calls[p].pc = "done" /\ calls[p].fails = calls[p].attempts) =>
              /\ calls[p].attempts = 3
              /\ calls[p].outcome = "returned"
              /\ calls[p].result = NO_RESULT
              /\ calls[p].errLogs = 3
              /\ calls[p].finalLogs = 1

C1_Witness ==
    \E p \in Procs :
        /\ calls[p].pc = "done"
        /\ calls[p].fails = calls[p].attempts
        /\ calls[p].nhttp = 3
        /\ calls[p].finalLogs = 1

\* C2: with an explicit seed peer configured, no frame ever waits for a
\* discovery query or a reachability probe, and the peer getPeer resolved to
\* is exactly the seed host and port.
C2_SeedAlwaysReturned ==
    SeedMode =>
        \A p \in Procs :
            /\ calls[p].pc \notin {"discover", "probe"}
            /\ calls[p].pc \in {"selected", "http"} => calls[p].peer = SeedPeer
            /\ calls[p].warns = 0

C2_Witness ==
    /\ SeedMode
    /\ calls["c"].pc = "selected"
    /\ calls["c"].peer = SeedPeer
    /\ calls["c"].tries = 2
    /\ calls["w"].pc = "http"

\* C3: without a seed, the peer getPeer resolved to is an element of the array
\* the last discovery query of that selection returned, and the last probe
\* made before the return answered true.
C3_ReturnedPeerWasProbed ==
    NonSeed =>
        \A p \in Procs :
            calls[p].pc \in {"selected", "http"} =>
                /\ calls[p].peer \in Range(calls[p].cands)
                /\ calls[p].reachable

C3_Witness ==
    /\ NonSeed
    /\ \E p \in Procs :
        /\ calls[p].pc = "selected"
        /\ calls[p].cands = <<P1, P2>>
        /\ calls[p].peer = P2
        /\ calls[p].warns > 0

\* C4: a settled sendGET/sendPOST has returned (a parsed response or
\* undefined); it has never raised an error to its caller.
C4_NothingEscapes ==
    \A p \in Procs :
        /\ calls[p].outcome # "raised"
        /\ calls[p].pc = "done" =>
              /\ calls[p].outcome = "returned"
              /\ calls[p].result.defined = (calls[p].fails < calls[p].attempts)

C4_Witness ==
    \E p \in Procs :
        /\ calls[p].pc = "done"
        /\ calls[p].outcome = "returned"
        /\ calls[p].result.defined
        /\ calls[p].fails = 2
        /\ calls[p].nhttp = 1

\* C5: after a successful init, as long as no polled height has had aip11
\* active, the watcher is polling or has a timer pending.
C5_WatcherKeepsPolling ==
    (initState = "ready" /\ height < Aip11Height) =>
        \/ watcher = "polling" /\ calls["w"].pc # "idle"
        \/ watcher = "scheduled" /\ timer # 0

\* C6: once the height written by a poll has aip11 active, the watcher has
\* stopped: no timer is pending, no height query is in progress, and from
\* then on nothing schedules it again or writes the height.
C6_StopsOnceActive ==
    /\ [](height >= Aip11Height =>
            /\ watcher = "stopped"
            /\ timer = 0
            /\ calls["w"] = IdleFrame)
    /\ [][height >= Aip11Height =>
            /\ height' = height
            /\ watcher' = "stopped"
            /\ timer' = 0
            /\ calls'["w"] = IdleFrame]_vars

C6_Witness ==
    /\ watcher = "stopped"
    /\ height >= Aip11Height
    /\ calls["c"].pc = "http"
    /\ calls["c"].tries = 1

\* C7: the configured height never decreases from one write to the next.
C7_HeightNeverDecreases == [][height' >= height]_vars

\* C8: with candidates {P1 unreachable, P2 reachable}, every getPeer that
\* has reached the discovery query eventually resolves, as long as the
\* process is up, and the peer it resolves to is P2.
C8_EventuallyReturnsP2 ==
    /\ [](\A p \in Procs :
            calls[p].pc \in {"selected", "http"} => calls[p].peer = P2)
    /\ \A p \in Procs :
          (calls[p].pc = "discover") ~>
              \/ calls[p].pc = "selected" /\ calls[p].peer = P2
              \/ process = "exited"

C8_Witness ==
    /\ calls["c"].pc = "selected"
    /\ calls["c"].peer = P2
    /\ calls["c"].warns = MaxWarn
    /\ calls["w"].pc = "probe"
    /\ calls["w"].peer = P1

\* C9: where discovery advertises P1 alone and P1 never answers the probe, a
\* frame that has reached the discovery query stays between the query and
\* the probe for ever: it settles nothing, sends no request, and its tries
\* and logged errors stay what they were (0 for the height query, which
\* starts after init).
C9_ResamplesForever ==
    /\ [](env = OneDeadEnv =>
            /\ calls["w"].pc \in {"idle", "discover", "probe"}
            /\ calls["w"].tries = 0
            /\ \A p \in Procs :
                 calls[p].pc \in {"discover", "probe"} =>
                    /\ calls[p].outcome = "none"
                    /\ calls[p].nhttp = 0
                    /\ calls[p].tries = calls[p].fails
                    /\ calls[p].errLogs = calls[p].tries)
    /\ [][env = OneDeadEnv =>
            \A p \in Procs :
                 calls[p].pc \in {"discover", "probe"} =>
                    /\ calls'[p].pc \in {"discover", "probe"}
                    /\ calls'[p].tries = calls[p].tries
                    /\ calls'[p].attempts = calls[p].attempts
                    /\ calls'[p].errLogs = calls[p].errLogs]_vars

C9_Witness ==
    /\ env = OneDeadEnv
    /\ calls["c"].pc = "probe"
    /\ calls["c"].tries = 0
    /\ calls["c"].warns = MaxWarn
    /\ calls["w"].pc = "discover"
    /\ calls["w"].warns = MaxWarn

\* C10: an empty candidate array yields no peer: the frame goes to the catch
\* clause with the TypeError of reading the undefined sample, no probe is
\* ever made of a peer that is not in the array, and where no peer at all is
\* advertised a call never probes, never sends a request and resolves to
\* undefined.
C10_EmptyListYieldsNoPeer ==
    \A p \in Procs :
        /\ calls[p].pc = "probe" =>
              /\ calls[p].cands # <<>>
              /\ calls[p].peer \in Range(calls[p].cands)
        /\ (calls[p].pc = "catch" /\ calls[p].err = "peer undefined") =>
              /\ calls[p].peer = NoPeer
              /\ calls[p].nhttp < calls[p].attempts
        /\ env = EmptyEnv =>
              /\ calls[p].pc \notin {"probe", "selected", "http"}
              /\ calls[p].nhttp = 0
              /\ calls[p].peer = NoPeer
              /\ calls[p].pc = "done" => calls[p].result = NO_RESULT

C10_Witness ==
    /\ env = EmptyEnv
    /\ calls["c"].pc = "catch"
    /\ calls["c"].err = "peer undefined"
    /\ calls["c"].tries = 2
    /\ calls["w"].pc = "discover"

\* C11: where P1 and P2 both answer the probe, P1 fails the request and P2
\* answers it, a request that fails was sent to P1, a request that is
\* answered was sent to P2, and every retry runs peer selection again (the
\* frame waits for discovery before it sends anything); so a call can fail
\* on P1 at its first attempt and return P2's response at its second.
C11_RetryReselects ==
    [][env = SwitchEnv =>
        \A p \in Procs :
            /\ (calls[p].pc = "http" /\ calls'[p].pc = "catch") =>
                  calls[p].peer = P1
            /\ (calls[p].pc = "http" /\ calls'[p].pc = "done") =>
                  /\ calls[p].peer = P2
                  /\ calls'[p].result.defined
            /\ (calls[p].pc = "catch" /\ calls'[p] # calls[p]
                  /\ calls'[p].pc # "done" /\ initState = "ready") =>
                  /\ calls'[p].pc = "discover"
                  /\ calls'[p].attempts = calls[p].attempts + 1
                  /\ calls'[p].nhttp = calls[p].nhttp]_vars

C11_Witness ==
    /\ env = SwitchEnv
    /\ calls["c"].pc = "done"
    /\ calls["c"].result.defined
    /\ calls["c"].attempts = 2
    /\ calls["c"].fails = 1
    /\ calls["c"].nhttp = 2

\* C12: when PeerDiscovery.new rejects, init rejects once and for all: it is
\* not run again, this.peerDiscovery stays undefined, the preset is not
\* applied and checkForAip11Enabled is never started (no height query, no
\* timer, no height written).
C12_InitFailureAborts ==
    /\ [](initState = "failed" =>
            /\ peerDiscovery = "undefined"
            /\ preset = FALSE
            /\ watcher = "off"
            /\ timer = 0
            /\ height = 0
            /\ calls["w"] = IdleFrame)
    /\ [][initState = "failed" => initState' = "failed"]_vars

C12_Witness ==
    /\ initState = "failed"
    /\ ~preset
    /\ watcher = "off"
    /\ calls["c"].pc = "done"
    /\ calls["c"].attempts = 3

\* C13: the configured height changes only in the step in which
\* checkForAip11Enabled resumes with the height its own query returned; no
\* step of an RPC handler's sendGET, sendPOST or getHeight changes it.
C13_OnlyWatcherWritesHeight ==
    /\ [][height' # height =>
            /\ watcher = "polling"
            /\ calls["w"].pc = "height"
            /\ height' = calls["w"].result.height
            /\ calls'["c"] = calls["c"]]_vars
    /\ [][calls'["c"] # calls["c"] => height' = height]_vars

C13_Witness ==
    /\ calls["c"].pc = "done"
    /\ calls["c"].api = "getHeight"
    /\ calls["c"].result.defined
    /\ calls["c"].result.height > height
    /\ height > 0
    /\ watcher = "polling"
    /\ calls["w"].pc = "http"

\* C14: a frame waits for findPeersWithPlugin (or for the probe that follows
\* it) only when init has created the discovery client: a call made before
\* init, or while init is suspended at PeerDiscovery.new, never reaches the
\* client.
C14_NoQueryBeforeDiscovery ==
    \A p \in Procs :
        calls[p].pc \in {"discover", "probe"} =>
            /\ peerDiscovery = "created"
            /\ initState = "ready"
            /\ NonSeed

C14_Witness ==
    /\ initState = "awaiting"
    /\ NonSeed
    /\ calls["c"].pc = "catch"
    /\ calls["c"].err = "peerDiscovery undefined"
    /\ calls["c"].tries = 1
    /\ calls["c"].nhttp = 0

\* C15: the attempts of one call are sequential.  A frame is at one await at
\* a time; while it selects a peer or waits for a reply every earlier
\* attempt has failed and the current attempt has sent at most one request;
\* a request is sent only from a resolved selection, to the peer it resolved
\* to; and a further attempt starts only in the catch clause, that is after
\* the previous attempt has failed with nothing of it still pending.
C15_AttemptsSequential ==
    /\ [](\A p \in Procs :
            /\ calls[p].attempts <= 3
            /\ calls[p].pc \in {"discover", "probe", "selected"} =>
                  /\ calls[p].attempts = calls[p].fails + 1
                  /\ calls[p].tries = calls[p].fails
                  /\ calls[p].nhttp <= calls[p].attempts - 1
            /\ calls[p].pc = "http" =>
                  /\ calls[p].attempts = calls[p].fails + 1
                  /\ calls[p].tries = calls[p].fails
                  /\ calls[p].nhttp <= calls[p].attempts
                  /\ calls[p].peer # NoPeer
            /\ calls[p].pc = "catch" => calls[p].attempts = calls[p].fails)
    /\ [][\A p \in Procs :
            /\ (calls[p].attempts >= 1
                  /\ calls'[p].attempts = calls[p].attempts + 1) =>
                  /\ calls[p].pc = "catch"
                  /\ calls'[p].tries = calls[p].tries + 1
                  /\ calls'[p].nhttp = calls[p].nhttp
            /\ (calls[p].pc # "http" /\ calls'[p].pc = "http") =>
                  /\ calls[p].pc = "selected"
                  /\ calls'[p].peer = calls[p].peer
                  /\ calls'[p].nhttp = calls[p].nhttp + 1
                  /\ calls'[p].attempts = calls[p].attempts]_vars

C15_Witness ==
    /\ calls["c"].pc = "http"
    /\ calls["c"].attempts = 3
    /\ calls["c"].nhttp = 2
    /\ calls["c"].warns > 0
    /\ calls["w"].pc = "probe"

\* C16: a call that has returned a parsed body returned it from its last
\* attempt: every earlier attempt had failed, no "failed after 3 tries" was
\* logged, nothing of the call is pending; and no call ever sends more than
\* 3 requests.
C16_SuccessEndsDispatch ==
    \A p \in Procs :
        /\ calls[p].nhttp <= 3
        /\ calls[p].nhttp <= calls[p].attempts
        /\ calls[p].pc = "done" =>
              /\ calls[p].peer = NoPeer
              /\ calls[p].cands = <<>>
              /\ calls[p].attempts <= 3
        /\ (calls[p].pc = "done" /\ calls[p].result.defined) =>
              /\ calls[p].outcome = "returned"
              /\ calls[p].attempts = calls[p].fails + 1
              /\ calls[p].tries = calls[p].fails
              /\ calls[p].nhttp >= 1
              /\ calls[p].finalLogs = 0

C16_Witness ==
    /\ calls["c"].pc = "done"
    /\ calls["c"].result.defined
    /\ calls["c"].nhttp = 3
    /\ calls["c"].attempts = 3
    /\ calls["c"].api = "sendPOST"

\* C17: a timer is pending only after the poll that set it has finished its
\* height query and written the height: the height query is over, the
\* configured height is the one the poll read, its milestone has aip11
\* inactive, and the delay is that milestone's block time in milliseconds;
\* while the poll still holds the height it read, no timer is set.
C17_RescheduleAfterWrite ==
    /\ timer # 0 =>
          /\ watcher = "scheduled"
          /\ calls["w"] = IdleFrame
          /\ ~GetMilestone(height).aip11
          /\ timer = GetMilestone(height).blocktime * 1000
    /\ watcher = "scheduled" => timer # 0
    /\ watcher = "polling" => (timer = 0 /\ calls["w"].pc # "idle")
    /\ calls["w"].pc \in {"height", "rejected"} =>
          (watcher = "polling" /\ timer = 0)

C17_Witness ==
    /\ timer # 0
    /\ height = Aip11Height - 1
    /\ calls["c"].pc = "http"
    /\ calls["c"].api = "getHeight"

\* C18: with init called once there is at most one invocation of
\* checkForAip11Enabled at any time: its height queries in progress and its
\* pending timers number at most 1, and none exists before init has
\* completed or after the watcher has ended.
PollsInProgress == IF calls["w"].pc # "idle" THEN 1 ELSE 0
TimersPending == IF timer # 0 THEN 1 ELSE 0

C18_AtMostOneWatcher ==
    /\ PollsInProgress + TimersPending <= 1
    /\ initState # "ready" => watcher = "off"
    /\ watcher \in {"off", "stopped", "crashed"} =>
          PollsInProgress + TimersPending = 0
    /\ watcher \in {"polling", "scheduled"} =>
          PollsInProgress + TimersPending = 1

C18_Witness ==
    /\ watcher = "polling"
    /\ height > 0
    /\ calls["w"].pc = "probe"
    /\ calls["w"].tries = 2
    /\ calls["w"].warns = MaxWarn
    /\ calls["c"].pc = "http"

\* C19: the object body of a sendPOST is serialized by the first attempt that
\* sends a request and the text is then reused: whenever a request of the
\* call is in flight, and ever after, the body is the once-serialized text,
\* never a text serialized twice; a sendGET or getHeight has no body.
C19_BodySerializedOnce ==
    \A p \in Procs :
        /\ calls[p].method = "post" =>
              /\ calls[p].nhttp = 0 => calls[p].body = ObjBody
              /\ calls[p].nhttp >= 1 => calls[p].body = [kind |-> "str", q |-> 0]
        /\ calls[p].method = "get" => calls[p].body = NoBody

C19_Witness ==
    /\ calls["c"].pc = "http"
    /\ calls["c"].api = "sendPOST"
    /\ calls["c"].nhttp = 3
    /\ calls["c"].body = [kind |-> "str", q |-> 0]

\* C20: with a seed configured every request in flight is addressed to the
\* seed and no frame queries discovery or probes; a call sends at most 3
\* requests; every attempt of the height query (which starts after init)
\* sends one, and a settled call whose every attempt sent one has sent
\* between 1 and 3; and every call in progress eventually settles, as long
\* as the process is up.
AllSent(f) == f.nhttp + (IF f.pc = "selected" THEN 1 ELSE 0) = f.attempts

C20_SeedCallTerminates ==
    /\ [](SeedMode =>
            /\ calls["w"].pc # "idle" => AllSent(calls["w"])
            /\ \A p \in Procs :
                 /\ calls[p].pc \notin {"discover", "probe"}
                 /\ calls[p].pc \in {"selected", "http"} =>
                       calls[p].peer = SeedPeer
                 /\ calls[p].nhttp <= 3
                 /\ calls[p].fails = 0 => AllSent(calls[p])
                 /\ (calls[p].pc = "done" /\ AllSent(calls[p])) =>
                       (calls[p].nhttp >= 1 /\ calls[p].nhttp <= 3))
    /\ \A p \in Procs :
          (SeedMode /\ calls[p].pc \in {"selected", "http", "catch"}) ~>
              (calls[p].pc = "done" \/ process = "exited")

C20_Witness ==
    /\ SeedMode
    /\ calls["c"].pc = "done"
    /\ AllSent(calls["c"])
    /\ calls["c"].nhttp = 3
    /\ calls["c"].result = NO_RESULT
    /\ calls["w"].pc = "http"
    /\ calls["w"].peer = SeedPeer

====
